---- MODULE Spec2Model ----
(***************************************************************************)
(* FindOrigin: the source-discovery pipeline.                              *)
(*   searchGoogle      src/lib/search/google.ts                            *)
(*   analyzeRelevance  src/lib/ai/openai.ts                                *)
(*   getTopResults     src/lib/ai/openai.ts                                *)
(*   extractText       src/lib/text/extractor.ts                           *)
(*   processMessage    src/lib/telegram/processor.ts   (bot front-end)     *)
(*   POST              src/app/api/tma/route.ts        (TMA front-end)     *)
(* The search provider, the scoring provider and the Telegram transport    *)
(* are the environment: each call's reply is a nondeterministic choice.    *)
(***************************************************************************)
EXTENDS Integers, Sequences, FiniteSets, TLC

\* ------------------------------------------------------------------ bounds
\* most items the search provider puts on one page of the model
MaxItems == 4
\* largest numResults searchGoogle is called with as a library function
MaxK == 21
\* longest scored list handed to getTopResults as a library function
MaxLen == 4
\* largest topN handed to getTopResults as a library function
MaxN == 4
\* longest candidate list handed to analyzeRelevance as a library function
MaxCand == 11
\* longest "results" array in a scoring reply of the library specification
MaxReply == 2

\* ------------------------------------------------------- program constants
\* google.ts: Math.min(numResults, 10), Math.ceil(numResults / 10), i * 10 + 1
PageSize == 10
\* processor.ts / route.ts: searchGoogle(text, 10)
PipelineNumResults == 10
\* openai.ts: searchResults.slice(0, 10)
AnalyzeLimit == 10
\* openai.ts: fallback confidence of analyzeRelevance
FallbackConfidence == 50
\* processor.ts / route.ts: confidence of the orchestrator's own fallback
OrchestratorFallbackConfidence == 50
\* processor.ts / route.ts: searchResults.slice(0, 3) and getTopResults(_, 3)
TopN == 3

\* confidences a scoring reply may carry (the provider is asked for 0..100 but
\* nothing in the code enforces it)
ConfVals == {-5, 0, 10, 40, 70, 90}

\* ------------------------------------------------------------------- texts
\* A string is a sequence of characters; the JavaScript value undefined is
\* the one-token sequence Undefined.
Undefined == <<"undefined">>
\* a request body request.json() cannot parse (TMA only)
Malformed == <<"malformed">>

TEmpty == <<>>
TSpace == <<" ">>
TWord == <<"a">>
TPadded == <<" ", "a", " ">>
TLink == <<"t", ".", "m", "e", "/", "c", "/", "1">>
THttpsLink == <<"h", "t", "t", "p", "s", ":", "/", "/">> \o TLink

MessageTexts == {Undefined, TEmpty, TSpace, TWord, TPadded, TLink}
Captions == {Undefined, TEmpty, TWord}
BodyTexts == {Malformed, Undefined, TEmpty, TSpace, TWord, THttpsLink}

\* !s for a string-or-undefined value
Falsy(s) == s = Undefined \/ s = TEmpty

IsSpace(c) == c = " "

RECURSIVE TrimStart(_)
TrimStart(s) ==
    IF s = <<>> THEN <<>>
    ELSE IF IsSpace(Head(s)) THEN TrimStart(Tail(s)) ELSE s

RECURSIVE TrimEnd(_)
TrimEnd(s) ==
    IF s = <<>> THEN <<>>
    ELSE IF IsSpace(s[Len(s)]) THEN TrimEnd(SubSeq(s, 1, Len(s) - 1)) ELSE s

\* String.prototype.trim
Trim(s) == TrimEnd(TrimStart(s))

StartsWith(s, p) == Len(s) >= Len(p) /\ SubSeq(s, 1, Len(p)) = p

\* p followed by at least one more character (the regex tail ".+")
PrefixThenSome(s, p) == StartsWith(s, p) /\ Len(s) > Len(p)

TMe == <<"t", ".", "m", "e", "/">>
Www == <<"w", "w", "w", ".">>
Http == <<"h", "t", "t", "p", ":", "/", "/">>
Https == <<"h", "t", "t", "p", "s", ":", "/", "/">>

\* /^https?:\/\/(www\.)?t\.me\/.+/.test(text) || /^t\.me\/.+/.test(text)
isTelegramUrl(s) ==
    \/ PrefixThenSome(s, Http \o TMe)
    \/ PrefixThenSome(s, Https \o TMe)
    \/ PrefixThenSome(s, Http \o Www \o TMe)
    \/ PrefixThenSome(s, Https \o Www \o TMe)
    \/ PrefixThenSome(s, TMe)

\* extractTextFromTelegramUrl: both paths throw
extractTextFromTelegramUrl(url) == [threw |-> TRUE, text |-> Undefined]

\* mutant of extractText: a failed link extraction is thrown to the caller
extractText_Rethrow(messageText, hasMessage, caption) ==
    IF Falsy(messageText) /\ ~hasMessage
    THEN [threw |-> TRUE, text |-> Undefined]
    ELSE LET mt == IF Falsy(messageText) /\ hasMessage /\ ~Falsy(caption)
                   THEN caption ELSE messageText
         IN  IF Falsy(mt)
             THEN [threw |-> TRUE, text |-> Undefined]
             ELSE IF isTelegramUrl(mt)
                  THEN extractTextFromTelegramUrl(mt)
                  ELSE [threw |-> FALSE, text |-> mt]

\* extractText(messageText, message): hasMessage says whether the message
\* object was passed, caption is message.caption
extractText(messageText, hasMessage, caption) ==
    IF Falsy(messageText) /\ ~hasMessage
    THEN [threw |-> TRUE, text |-> Undefined]
    ELSE LET mt == IF Falsy(messageText) /\ hasMessage /\ ~Falsy(caption)
                   THEN caption ELSE messageText
         IN  IF Falsy(mt)
             THEN [threw |-> TRUE, text |-> Undefined]
             ELSE IF isTelegramUrl(mt)
                  THEN LET r == extractTextFromTelegramUrl(mt)
                       IN  [threw |-> FALSE,
                            text |-> IF r.threw THEN mt ELSE r.text]
                  ELSE [threw |-> FALSE, text |-> mt]

\* mutant of validateInput: the length is tested without trimming
validateInput_NoTrim(text) == Len(text) > 0

\* validateInput: text.trim().length > 0
validateInput(text) == Len(Trim(text)) > 0

\* ----------------------------------------------------------------- helpers
Min(a, b) == IF a < b THEN a ELSE b
Max(a, b) == IF a > b THEN a ELSE b

\* Array.prototype.slice(0, end)
Slice0(s, end) ==
    LET e == IF end < 0 THEN Max(Len(s) + end, 0) ELSE Min(end, Len(s))
    IN  SubSeq(s, 1, e)

\* Math.ceil(k / d) for k >= 0, d > 0
CeilDiv(k, d) == (k + d - 1) \div d

\* ------------------------------------------------------- search provider
\* A SearchResult is its link; the provider's item at 1-based rank r is r.
ErrStatuses == {400, 401, 403, 429, 500}

\* One reply of the Custom Search endpoint to one page call:
\*   items  - response.ok, data.items has n entries (n = 0: absent or empty)
\*   status - !response.ok; invalid says whether the error message of a 400
\*            contains "invalid"/"Invalid"
\*   throw  - fetch() rejects, or the body of an ok response is not JSON
PageReplies ==
    [kind : {"items"}, n : 0..MaxItems, status : {200}, invalid : {FALSE}]
    \cup [kind : {"status"}, n : {0}, status : ErrStatuses \ {400}, invalid : {FALSE}]
    \cup [kind : {"status"}, n : {0}, status : {400}, invalid : BOOLEAN]
    \cup [kind : {"throw"}, n : {0}, status : {0}, invalid : {FALSE}]

\* the items a page call with index i returns when it returns n of them
PageItems(i, n) == [j \in 1..n |-> i * PageSize + j]

\* mutant of StatusError: every non-ok status gives the generic provider error
StatusError_Generic(reply) == "apiError"

\* the Error searchGoogle throws for a non-ok status on the first page
StatusError(reply) ==
    IF reply.status = 400
    THEN IF reply.invalid THEN "invalidConfiguration" ELSE "requestError"
    ELSE IF reply.status = 403 THEN "accessDenied"
    ELSE IF reply.status = 429 THEN "quotaExceeded"
    ELSE IF reply.status = 401 THEN "authenticationFailed"
    ELSE "apiError"

\* ------------------------------------------------------ scoring provider
\* One reply of chat.completions.create:
\*   throw     - the call rejects
\*   nocontent - choices[0]?.message?.content is empty
\*   badjson   - JSON.parse(content) throws
\*   null      - content is the JSON null (analysis.results throws)
\*   notarray  - analysis.results is present and has no find method
\*   noresults - analysis has no results field (analysis.results?.find is undefined)
\*   list      - analysis.results is an array of {index, confidence, explanation}
FailKinds == {"throw", "nocontent", "badjson", "null", "notarray"}

FailReply(k) == [kind |-> k, items |-> <<>>]
ListReply(items) == [kind |-> "list", items |-> items]
NoResultsReply == [kind |-> "noresults", items |-> <<>>]

\* analysis.results?.find(r => r.index === k): position of the first match, 0 if none
FindIndex(items, k) ==
    LET S == {j \in 1..Len(items) : items[j].index = k}
    IN  IF S = {} THEN 0 ELSE CHOOSE j \in S : \A m \in S : j <= m

\* Array.prototype.sort with (a, b) => b.confidence - a.confidence: stable, descending
RECURSIVE InsertDesc(_, _)
InsertDesc(sorted, x) ==
    IF sorted = <<>> THEN <<x>>
    ELSE IF Head(sorted).confidence >= x.confidence
         THEN <<Head(sorted)>> \o InsertDesc(Tail(sorted), x)
         ELSE <<x>> \o sorted

RECURSIVE SortDesc(_)
SortDesc(s) ==
    IF s = <<>> THEN <<>>
    ELSE InsertDesc(SortDesc(SubSeq(s, 1, Len(s) - 1)), s[Len(s)])

\* mutant of ScorerFallback: the fallback marks every candidate as irrelevant
ScorerFallback_Zero(resultsToAnalyze) ==
    [j \in 1..Len(resultsToAnalyze) |->
        [link |-> resultsToAnalyze[j], confidence |-> 0,
         explanation |-> "unavailable"]]

\* the catch block of analyzeRelevance
ScorerFallback(resultsToAnalyze) ==
    [j \in 1..Len(resultsToAnalyze) |->
        [link |-> resultsToAnalyze[j], confidence |-> FallbackConfidence,
         explanation |-> "unavailable"]]

\* mutant of MapScores: a candidate the response does not mention is left out
MapScores_DropMissing(resultsToAnalyze, items) ==
    SelectSeq([j \in 1..Len(resultsToAnalyze) |->
                  LET f == FindIndex(items, j)
                  IN  [link |-> resultsToAnalyze[j],
                       confidence |-> IF f = 0 THEN -1 ELSE items[f].confidence,
                       explanation |-> IF f # 0 /\ items[f].explained THEN "ai"
                                       ELSE "default"]],
              LAMBDA r : r.confidence # -1)

\* the map over resultsToAnalyze in the try block of analyzeRelevance
MapScores(resultsToAnalyze, items) ==
    [j \in 1..Len(resultsToAnalyze) |->
        LET f == FindIndex(items, j)
        IN  [link |-> resultsToAnalyze[j],
             confidence |-> IF f = 0 THEN 0 ELSE items[f].confidence,
             explanation |-> IF f # 0 /\ items[f].explained THEN "ai" ELSE "default"]]

\* mutant of analyzeRelevance: the scored list is returned without sorting
analyzeRelevance_NoSort(searchResults, reply) ==
    IF Len(searchResults) = 0
    THEN [threw |-> FALSE, called |-> FALSE, results |-> <<>>]
    ELSE LET resultsToAnalyze == Slice0(searchResults, AnalyzeLimit)
         IN  IF reply.kind \in FailKinds
             THEN [threw |-> FALSE, called |-> TRUE,
                   results |-> ScorerFallback(resultsToAnalyze)]
             ELSE [threw |-> FALSE, called |-> TRUE,
                   results |-> MapScores(resultsToAnalyze, reply.items)]

\* mutant of analyzeRelevance: no catch block, a failed scoring call is thrown
analyzeRelevance_Throws(searchResults, reply) ==
    IF Len(searchResults) = 0
    THEN [threw |-> FALSE, called |-> FALSE, results |-> <<>>]
    ELSE LET resultsToAnalyze == Slice0(searchResults, AnalyzeLimit)
         IN  IF reply.kind \in FailKinds
             THEN [threw |-> TRUE, called |-> TRUE, results |-> <<>>]
             ELSE [threw |-> FALSE, called |-> TRUE,
                   results |-> SortDesc(MapScores(resultsToAnalyze, reply.items))]

\* analyzeRelevance(originalText, searchResults) when the provider answers
\* reply; called says whether the provider was called at all
analyzeRelevance(searchResults, reply) ==
    IF Len(searchResults) = 0
    THEN [threw |-> FALSE, called |-> FALSE, results |-> <<>>]
    ELSE LET resultsToAnalyze == Slice0(searchResults, AnalyzeLimit)
         IN  IF reply.kind \in FailKinds
             THEN [threw |-> FALSE, called |-> TRUE,
                   results |-> ScorerFallback(resultsToAnalyze)]
             ELSE [threw |-> FALSE, called |-> TRUE,
                   results |-> SortDesc(MapScores(resultsToAnalyze, reply.items))]

\* mutant of getTopResults: the filter runs on the whole list, nothing is sliced
getTopResults_NoSlice(scoredResults, topN) ==
    SelectSeq(scoredResults, LAMBDA r : r.confidence > 0)

\* mutant of getTopResults: the filter keeps zero-confidence entries
getTopResults_KeepZero(scoredResults, topN) ==
    SelectSeq(Slice0(scoredResults, topN), LAMBDA r : r.confidence >= 0)

\* mutant of getTopResults: the filter drops only the entries of confidence 0
getTopResults_DropZeroOnly(scoredResults, topN) ==
    SelectSeq(Slice0(scoredResults, topN), LAMBDA r : r.confidence # 0)

\* getTopResults(scoredResults, topN)
getTopResults(scoredResults, topN) ==
    SelectSeq(Slice0(scoredResults, topN), LAMBDA r : r.confidence > 0)

\* the orchestrators' own fallback: searchResults.slice(0, 3).map(...)
OrchestratorFallback(searchResults) ==
    LET first == Slice0(searchResults, TopN)
    IN  [j \in 1..Len(first) |->
            [link |-> first[j], confidence |-> OrchestratorFallbackConfidence,
             explanation |-> "search"]]

\* ------------------------------------------------------------------- state
VARIABLES
    frontend,       \* "bot" (processMessage), "tma" (POST), "lib" (a function called alone)
    pc,             \* position of the running handler or function
    messageText,    \* bot: message.text; tma: body.text
    caption,        \* bot: message.caption
    text,           \* the extracted text: search query and scorer's original text
    numResults,     \* searchGoogle: parameter
    i,              \* searchGoogle: loop index
    allResults,     \* searchGoogle: accumulated items
    pageLog,        \* the search provider's replies, one per fetch() issued
    searchErr,      \* the error searchGoogle threw, "None" if it did not throw
    searchResults,  \* the list searchGoogle returned
    scorerCalls,    \* number of chat.completions.create calls
    scorerReply,    \* what the scoring provider answered
    scoredResults,  \* scoredResults of the orchestrator / argument of getTopResults
    topN,           \* getTopResults: parameter
    topResults,     \* the list getTopResults returned
    outcome,        \* the terminal branch the orchestrator selected
    sent,           \* bot: the sendMessage calls so far, each with whether it resolved
    caught,         \* bot: the top-level catch block ran
    rejected,       \* bot: the promise of processMessage rejected
    response,       \* tma, webhook: the NextResponse returned
    queries,        \* searchMultiple: queries.length
    queryLog,       \* searchMultiple: what searchGoogle did for each query so far
    seenLinks,      \* searchMultiple: seenLinks
    multiResults,   \* searchMultiple: allResults
    update,         \* webhook: the shape of the update in the request body
    routed,         \* webhook: the handler the message was routed to
    query,          \* the query argument of the orchestrator's searchGoogle call
    originalText    \* the originalText argument of its analyzeRelevance call

vars == <<frontend, pc, messageText, caption, text, numResults, i, allResults,
          pageLog, searchErr, searchResults, scorerCalls, scorerReply,
          scoredResults, topN, topResults, outcome, sent, caught, rejected,
          response, queries, queryLog, seenLinks, multiResults, update, routed,
          query, originalText>>

inputVars == <<frontend, messageText, caption>>
searchVars == <<numResults, i, allResults, pageLog, searchErr, searchResults>>
scoreVars == <<scorerCalls, scorerReply, scoredResults, topN, topResults>>
botVars == <<sent, caught, rejected>>
multiVars == <<queries, queryLog, seenLinks, multiResults>>
hookVars == <<update, routed>>
callVars == <<query, originalText>>
sideVars == <<multiVars, hookVars, callVars>>

NoReply == [kind |-> "none", items |-> <<>>]
NoResponse == [status |-> 0, success |-> FALSE, error |-> "none", results |-> <<>>]

\* the variables of searchGoogle, of the scoring stage and of the handlers,
\* as they are before a call
FreshSearch ==
    /\ numResults = 0 /\ i = 0 /\ allResults = <<>> /\ pageLog = <<>>
    /\ searchErr = "None" /\ searchResults = <<>>

FreshScore ==
    /\ scorerCalls = 0 /\ scorerReply = NoReply /\ scoredResults = <<>>
    /\ topN = 0 /\ topResults = <<>>

FreshHandler ==
    /\ text = Undefined /\ outcome = "None"
    /\ sent = <<>> /\ caught = FALSE /\ rejected = FALSE
    /\ response = NoResponse
    /\ query = Undefined /\ originalText = Undefined

FreshMulti ==
    /\ queries = 0 /\ queryLog = <<>> /\ seenLinks = {} /\ multiResults = <<>>

FreshHook == update = "none" /\ routed = "none"

Fresh == FreshSearch /\ FreshScore /\ FreshHandler /\ FreshMulti /\ FreshHook

\* a message update reaches processMessage (a text message, or a media message
\* with or without a caption), or a request reaches the TMA POST
Init ==
    /\ pc = "start"
    /\ \/ frontend = "bot" /\ messageText \in MessageTexts /\ caption = Undefined
       \/ frontend = "bot" /\ messageText = Undefined /\ caption \in Captions
       \/ frontend = "tma" /\ messageText \in BodyTexts /\ caption = Undefined
    /\ Fresh

\* ------------------------------------------------------------ searchGoogle
\* getGoogleSearchApiKey() / getGoogleSearchEngineId(), then the loop set-up
SearchBegin ==
    /\ pc = "searchCall"
    /\ \E configured \in BOOLEAN :
          IF configured
          THEN /\ pc' = "search"
               /\ i' = 0 /\ allResults' = <<>>
               /\ UNCHANGED searchErr
          ELSE /\ pc' = "searched"
               /\ searchErr' = "notConfigured"
               /\ UNCHANGED <<i, allResults>>
    /\ UNCHANGED <<inputVars, sideVars, text, numResults, pageLog, searchResults, scoreVars,
                   outcome, botVars, response>>

\* mutant of LoopCond: paging goes on until numResults results are collected
LoopCond_UntilFull == Len(allResults) < numResults

\* mutant of LoopCond: the page counter is compared with <=
LoopCond_OffByOne ==
    i <= CeilDiv(numResults, PageSize) /\ Len(allResults) < numResults

\* i < numRequests && allResults.length < numResults
LoopCond == i < CeilDiv(numResults, PageSize) /\ Len(allResults) < numResults

\* mutant of PageStep: a failure on a later page is thrown like one on the first
PageStep_AlwaysThrow(idx, reply) ==
    IF reply.kind = "items"
    THEN IF reply.n > 0 THEN "push" ELSE "break"
    ELSE IF reply.kind = "status" /\ reply.status = 400 /\ idx > 0 THEN "break"
    ELSE "throw"

\* what one iteration (index idx) does with the provider's reply:
\*   "push"  - response.ok with items: allResults.push(...data.items)
\*   "break" - an empty page, a 400 on a later page, or any failure on a later page
\*   "throw" - any failure on the first page: the error leaves searchGoogle
PageStep(idx, reply) ==
    IF reply.kind = "items"
    THEN IF reply.n > 0 THEN "push" ELSE "break"
    ELSE IF reply.kind = "status" /\ reply.status = 400 /\ idx > 0 THEN "break"
    ELSE IF idx = 0 THEN "throw" ELSE "break"

\* one iteration of the paging loop: one fetch and what the code does with its reply
SearchPage ==
    /\ pc = "search"
    /\ LoopCond
    /\ \E reply \in PageReplies :
          LET step == PageStep(i, reply)
          IN  /\ pageLog' = Append(pageLog, reply)
              /\ allResults' = IF step = "push"
                               THEN allResults \o PageItems(i, reply.n)
                               ELSE allResults
              /\ i' = IF step = "push" THEN i + 1 ELSE i
              /\ searchErr' = IF step = "throw"
                              THEN IF reply.kind = "status" THEN StatusError(reply)
                                   ELSE "fetchFailed"
                              ELSE searchErr
              /\ pc' = IF step = "push" THEN "search"
                       ELSE IF step = "break" THEN "searchExit"
                       ELSE "searched"
    /\ UNCHANGED <<inputVars, sideVars, text, numResults, searchResults, scoreVars, outcome,
                   botVars, response>>

\* await fetch(url.toString()) carries no signal and no timeout: when the
\* provider never answers, the promise never settles and the loop stays here
SearchPending ==
    /\ pc = "search"
    /\ LoopCond
    /\ pc' = "searchPending"
    /\ UNCHANGED <<inputVars, sideVars, text, searchVars, scoreVars, outcome,
                   botVars, response>>

\* return allResults.slice(0, numResults), after a break or when the loop ends
SearchReturn ==
    /\ \/ pc = "searchExit"
       \/ pc = "search" /\ ~LoopCond
    /\ searchResults' = Slice0(allResults, numResults)
    /\ pc' = "searched"
    /\ UNCHANGED <<inputVars, sideVars, text, numResults, i, allResults, pageLog, searchErr,
                   scoreVars, outcome, botVars, response>>

\* --------------------------------------- scoring replies of the pipeline
RECURSIVE Ascending(_)
Ascending(S) ==
    IF S = {} THEN <<>>
    ELSE LET m == CHOOSE x \in S : \A y \in S : x <= y
         IN  <<m>> \o Ascending(S \ {m})

\* a results array that scores the candidates of DOMAIN g, in index order
ItemsOf(g) ==
    LET idx == Ascending(DOMAIN g)
    IN  [j \in 1..Len(idx) |->
            [index |-> idx[j], confidence |-> g[idx[j]], explained |-> TRUE]]

\* the replies the scoring provider may give for n candidates: every failure,
\* a reply without results, and every reply that scores a subset of the
\* candidates with confidences of ConfVals
PipelineReplies(n) ==
    {FailReply(k) : k \in FailKinds}
    \cup {NoResultsReply}
    \cup {ListReply(ItemsOf(g)) :
            g \in UNION {[P -> ConfVals] : P \in SUBSET (1..n)}}

\* ------------------------------------------- processMessage (the bot)
\* await sendMessage(chatId, m): it resolves (ok) and the handler goes on to
\* next, or it throws and control passes to the top-level catch block
Send(m, ok, next) ==
    /\ sent' = Append(sent, [msg |-> m, ok |-> ok])
    /\ pc' = IF ok THEN next ELSE "catch"

\* processor.ts 26: the "processing" notification
BotStart ==
    /\ frontend = "bot" /\ pc = "start"
    /\ \E ok \in BOOLEAN : Send("processing", ok, "extract")
    /\ UNCHANGED <<inputVars, sideVars, text, searchVars, scoreVars, outcome, caught,
                   rejected, response>>

\* processor.ts 29-39: extractText, validateInput, the "searching" notification
BotExtract ==
    /\ frontend = "bot" /\ pc = "extract"
    /\ LET r == extractText(messageText, TRUE, caption)
       IN  IF r.threw
           THEN /\ pc' = "catch"
                /\ UNCHANGED <<text, outcome, sent, numResults, query>>
           ELSE /\ text' = r.text
                /\ IF ~validateInput(r.text)
                   THEN /\ outcome' = "EmptyInput"
                        /\ \E ok \in BOOLEAN : Send("emptyInput", ok, "done")
                        /\ UNCHANGED <<numResults, query>>
                   ELSE /\ \E ok \in BOOLEAN : Send("searching", ok, "searchCall")
                        /\ numResults' = PipelineNumResults
                        /\ query' = r.text
                        /\ UNCHANGED outcome
    /\ UNCHANGED <<inputVars, multiVars, hookVars, originalText, i,
                   allResults, pageLog, searchErr, searchResults,
                   scoreVars, caught, rejected, response>>

\* mutant of BotAfterSearch: the search catch block rethrows after notifying
BotAfterSearch_Rethrow ==
    /\ frontend = "bot" /\ pc = "searched"
    /\ IF searchErr # "None"
       THEN /\ outcome' = "SearchProviderError"
            /\ \E ok \in BOOLEAN : Send("searchError", ok, "catch")
       ELSE IF Len(searchResults) = 0
            THEN /\ outcome' = "NoSourcesFound"
                 /\ \E ok \in BOOLEAN : Send("noSources", ok, "done")
            ELSE /\ \E ok \in BOOLEAN : Send("analyzing", ok, "score")
                 /\ UNCHANGED outcome
    /\ UNCHANGED <<inputVars, sideVars, text, searchVars, scoreVars, caught, rejected,
                   response>>

\* mutant of BotAfterSearch: the check for an empty result list is missing
BotAfterSearch_NoEmptyCheck ==
    /\ frontend = "bot" /\ pc = "searched"
    /\ IF searchErr # "None"
       THEN /\ outcome' = "SearchProviderError"
            /\ \E ok \in BOOLEAN : Send("searchError", ok, "done")
       ELSE /\ \E ok \in BOOLEAN : Send("analyzing", ok, "score")
            /\ UNCHANGED outcome
    /\ UNCHANGED <<inputVars, sideVars, text, searchVars, scoreVars, caught, rejected,
                   response>>

\* processor.ts 51-54: the text sent when searchGoogle threw this error
BotSearchErrorMessage(err) == "searchError"

\* processor.ts 48-68: the catch around searchGoogle, the empty check, the
\* "analyzing" notification
BotAfterSearch ==
    /\ frontend = "bot" /\ pc = "searched"
    /\ IF searchErr # "None"
       THEN /\ outcome' = "SearchProviderError"
            /\ \E ok \in BOOLEAN : Send(BotSearchErrorMessage(searchErr), ok, "done")
       ELSE IF Len(searchResults) = 0
            THEN /\ outcome' = "NoSourcesFound"
                 /\ \E ok \in BOOLEAN : Send("noSources", ok, "done")
            ELSE /\ \E ok \in BOOLEAN : Send("analyzing", ok, "score")
                 /\ UNCHANGED outcome
    /\ UNCHANGED <<inputVars, sideVars, text, searchVars, scoreVars, caught, rejected,
                   response>>

\* processor.ts 70-130: analyzeRelevance with the orchestrator's fallback,
\* getTopResults, and the terminal message
BotScore ==
    /\ frontend = "bot" /\ pc = "score"
    /\ \E reply \in PipelineReplies(Len(searchResults)), okWarn \in BOOLEAN, ok \in BOOLEAN :
          LET r == analyzeRelevance(searchResults, reply)
              warned == IF r.threw
                        THEN Append(sent, [msg |-> "scoreWarning", ok |-> okWarn])
                        ELSE sent
              scored == IF r.threw THEN OrchestratorFallback(searchResults)
                        ELSE r.results
              top == getTopResults(scored, TopN)
          IN  /\ scorerReply' = reply
              /\ originalText' = text
              /\ scorerCalls' = scorerCalls + (IF r.called THEN 1 ELSE 0)
              /\ IF r.threw /\ ~okWarn
                 THEN /\ sent' = warned
                      /\ pc' = "catch"
                      /\ UNCHANGED <<scoredResults, topN, topResults, outcome>>
                 ELSE /\ scoredResults' = scored
                      /\ topN' = TopN
                      /\ topResults' = top
                      /\ outcome' = IF Len(top) = 0 THEN "NoRelevantSourcesFound"
                                    ELSE "Success"
                      /\ sent' = Append(warned,
                                        [msg |-> IF Len(top) = 0 THEN "noRelevant"
                                                 ELSE "success",
                                         ok |-> ok])
                      /\ pc' = IF ok THEN "done" ELSE "catch"
    /\ UNCHANGED <<inputVars, multiVars, hookVars, query, text, searchVars,
                   caught, rejected, response>>

\* the error that reached the top-level catch of processMessage: the one a
\* failed sendMessage threw, or the one extractText threw
CaughtError ==
    IF Len(sent) > 0 /\ ~sent[Len(sent)].ok THEN "Network error: Unable to reach Telegram API"
    ELSE "No text found in message"

\* mutant of ApologyText: the message of the error is shown to the user
ApologyText_Detail(error) == error

\* processor.ts 135-138: the text sent from the catch block
ApologyText(error) == "apology"

\* processor.ts 132-139: the top-level catch sends the generic apology; when
\* that send throws too, the promise of processMessage rejects
BotCatch ==
    /\ frontend = "bot" /\ pc = "catch"
    /\ \E ok \in BOOLEAN :
          /\ sent' = Append(sent, [msg |-> ApologyText(CaughtError), ok |-> ok])
          /\ rejected' = ~ok
    /\ caught' = TRUE
    /\ outcome' = IF outcome = "None" THEN "UnexpectedError" ELSE outcome
    /\ pc' = "done"
    /\ UNCHANGED <<inputVars, sideVars, text, searchVars, scoreVars, response>>

\* ------------------------------------------------- POST (the TMA route)
\* mutant of Respond: the { status } option is left out, so every response is a 200
Respond_DefaultStatus(st, ok, err, res) ==
    response' = [status |-> 200, success |-> ok, error |-> err, results |-> res]

\* NextResponse.json({ success, error?, results? }, { status })
Respond(st, ok, err, res) ==
    response' = [status |-> st, success |-> ok, error |-> err, results |-> res]

\* route.ts 68-90: the user-visible text chosen from error.message
TmaSearchErrorMessage(err) ==
    IF err = "notConfigured" THEN "searchNotConfigured"
    ELSE IF err = "quotaExceeded" THEN "searchQuota"
    ELSE IF err \in {"accessDenied", "authenticationFailed", "invalidConfiguration"}
         THEN "searchAuthorization"
    ELSE "searchFailedWithDetail"

\* route.ts 32-55 and 140-147: request.json(), the input check, extractText
TmaStart ==
    /\ frontend = "tma" /\ pc = "start"
    /\ IF messageText = Malformed
       THEN /\ outcome' = "UnexpectedError"
            /\ Respond(500, FALSE, "unexpected", <<>>)
            /\ pc' = "done"
            /\ UNCHANGED <<text, numResults, query>>
       ELSE IF Falsy(messageText) \/ ~validateInput(messageText)
            THEN /\ outcome' = "EmptyInput"
                 /\ Respond(400, FALSE, "emptyInput", <<>>)
                 /\ pc' = "done"
                 /\ UNCHANGED <<text, numResults, query>>
            ELSE LET r == extractText(messageText, FALSE, Undefined)
                 IN  IF r.threw
                     THEN /\ outcome' = "EmptyInput"
                          /\ Respond(400, FALSE, "extractFailed", <<>>)
                          /\ pc' = "done"
                          /\ UNCHANGED <<text, numResults, query>>
                     ELSE /\ text' = r.text
                          /\ numResults' = PipelineNumResults
                          /\ query' = r.text
                          /\ pc' = "searchCall"
                          /\ UNCHANGED <<outcome, response>>
    /\ UNCHANGED <<inputVars, multiVars, hookVars, originalText, i,
                   allResults, pageLog, searchErr, searchResults,
                   scoreVars, botVars>>

\* mutant of TmaAfterSearch: a search error is swallowed and treated as no results
TmaAfterSearch_Swallow ==
    /\ frontend = "tma" /\ pc = "searched"
    /\ IF searchErr # "None" \/ Len(searchResults) = 0
       THEN /\ outcome' = "NoSourcesFound"
            /\ Respond(404, FALSE, "noSources", <<>>)
            /\ pc' = "done"
       ELSE /\ pc' = "score"
            /\ UNCHANGED <<outcome, response>>
    /\ UNCHANGED <<inputVars, sideVars, text, searchVars, scoreVars, botVars>>

\* route.ts 64-104: the catch around searchGoogle and the empty check
TmaAfterSearch ==
    /\ frontend = "tma" /\ pc = "searched"
    /\ IF searchErr # "None"
       THEN /\ outcome' = "SearchProviderError"
            /\ Respond(500, FALSE, TmaSearchErrorMessage(searchErr), <<>>)
            /\ pc' = "done"
       ELSE IF Len(searchResults) = 0
            THEN /\ outcome' = "NoSourcesFound"
                 /\ Respond(404, FALSE, "noSources", <<>>)
                 /\ pc' = "done"
            ELSE /\ pc' = "score"
                 /\ UNCHANGED <<outcome, response>>
    /\ UNCHANGED <<inputVars, sideVars, text, searchVars, scoreVars, botVars>>

\* route.ts 106-138: analyzeRelevance with the route's fallback, getTopResults,
\* and the response
TmaScore ==
    /\ frontend = "tma" /\ pc = "score"
    /\ \E reply \in PipelineReplies(Len(searchResults)) :
          LET r == analyzeRelevance(searchResults, reply)
              scored == IF r.threw THEN OrchestratorFallback(searchResults)
                        ELSE r.results
              top == getTopResults(scored, TopN)
          IN  /\ scorerReply' = reply
              /\ originalText' = text
              /\ scorerCalls' = scorerCalls + (IF r.called THEN 1 ELSE 0)
              /\ scoredResults' = scored
              /\ topN' = TopN
              /\ topResults' = top
              /\ IF Len(top) = 0
                 THEN /\ outcome' = "NoRelevantSourcesFound"
                      /\ Respond(404, FALSE, "noRelevant", <<>>)
                 ELSE /\ outcome' = "Success"
                      /\ Respond(200, TRUE, "none", top)
    /\ pc' = "done"
    /\ UNCHANGED <<inputVars, multiVars, hookVars, query, text, searchVars, botVars>>

\* ------------------------------------------------------ the two front-ends
Next ==
    \/ BotStart \/ BotExtract \/ BotAfterSearch \/ BotScore \/ BotCatch
    \/ TmaStart \/ TmaAfterSearch \/ TmaScore
    \/ SearchBegin \/ SearchPage \/ SearchPending \/ SearchReturn

Spec == Init /\ [][Next]_vars

\* ------------------------------------- searchGoogle called as a function
NoInput == frontend = "lib" /\ messageText = Undefined /\ caption = Undefined

InitSearch ==
    /\ NoInput
    /\ pc = "searchCall"
    /\ numResults \in 0..MaxK
    /\ i = 0 /\ allResults = <<>> /\ pageLog = <<>>
    /\ searchErr = "None" /\ searchResults = <<>>
    /\ FreshScore /\ FreshHandler /\ FreshMulti /\ FreshHook

NextSearch == SearchBegin \/ SearchPage \/ SearchPending \/ SearchReturn

SpecSearch == InitSearch /\ [][NextSearch]_vars

\* the event loop runs every continuation that is ready: whenever searchGoogle
\* can take a step it eventually takes one
FairSearch == SpecSearch /\ WF_vars(NextSearch)

\* ------------------------------------ getTopResults called as a function
\* every list of at most MaxLen scored results, in any order of confidence
RECURSIVE SeqsUpTo(_, _)
SeqsUpTo(S, n) ==
    IF n = 0 THEN {<<>>}
    ELSE LET shorter == SeqsUpTo(S, n - 1)
         IN  shorter \cup {Append(q, x) : q \in shorter, x \in S}

ScoredOf(confs) ==
    [j \in 1..Len(confs) |->
        [link |-> j, confidence |-> confs[j], explanation |-> "ai"]]

InitTop ==
    /\ NoInput
    /\ pc = "topCall"
    /\ FreshSearch /\ FreshHandler /\ FreshMulti /\ FreshHook
    /\ scorerCalls = 0 /\ scorerReply = NoReply
    /\ scoredResults \in {ScoredOf(c) : c \in SeqsUpTo(ConfVals, MaxLen)}
    /\ topN \in -1..MaxN
    /\ topResults = <<>>

ApplyTop ==
    /\ pc = "topCall"
    /\ topResults' = getTopResults(scoredResults, topN)
    /\ pc' = "done"
    /\ UNCHANGED <<inputVars, sideVars, text, searchVars, scorerCalls, scorerReply,
                   scoredResults, topN, outcome, botVars, response>>

SpecTop == InitTop /\ [][ApplyTop]_vars

\* --------------------------------- analyzeRelevance called as a function
\* confidences and largest index of the replies tried on the function alone
LibConfVals == {-5, 0, 40, 90}
MaxIndex == 2

LibReplies ==
    {FailReply(k) : k \in FailKinds}
    \cup {NoResultsReply}
    \cup {ListReply(q) :
            q \in SeqsUpTo([index : 0..MaxIndex, confidence : LibConfVals,
                            explained : BOOLEAN], MaxReply)}

InitScore ==
    /\ NoInput
    /\ pc = "scoreCall"
    /\ Fresh

ApplyScore ==
    /\ pc = "scoreCall"
    /\ \E n \in 0..MaxCand, reply \in LibReplies :
          LET r == analyzeRelevance([j \in 1..n |-> j], reply)
          IN  /\ searchResults' = [j \in 1..n |-> j]
              /\ scorerReply' = reply
              /\ scorerCalls' = scorerCalls + (IF r.called THEN 1 ELSE 0)
              /\ scoredResults' = r.results
              /\ outcome' = IF r.threw THEN "Threw" ELSE "Returned"
    /\ pc' = "done"
    /\ UNCHANGED <<inputVars, sideVars, text, numResults, i, allResults, pageLog, searchErr,
                   topN, topResults, botVars, response>>

SpecScore == InitScore /\ [][ApplyScore]_vars

\* ------------------------------------ searchMultiple called as a function
\* most queries handed to searchMultiple, and most results of one query
MaxQueries == 3
MaxPerQuery == 2

\* the links the provider's results carry
LinkVals == {1, 2}

\* what searchGoogle(query, resultsPerQuery) does for one query: it throws, or
\* it returns results with these links (the same link may occur twice)
QueryOutcomes ==
    {[threw |-> TRUE, links |-> <<>>]}
    \cup {[threw |-> FALSE, links |-> q] : q \in SeqsUpTo(LinkVals, MaxPerQuery)}

\* the SearchResult objects of the q-th query: equal links, distinct entries
QueryResults(q, links) ==
    [j \in 1..Len(links) |-> [link |-> links[j], origin |-> <<q, j>>]]

\* mutant of MergeResults: the link of a kept entry is not recorded as seen
RECURSIVE MergeResults_NoAdd(_, _, _)
MergeResults_NoAdd(all, seen, results) ==
    IF results = <<>> THEN [all |-> all, seen |-> seen]
    ELSE IF Head(results).link \notin seen
         THEN MergeResults_NoAdd(Append(all, Head(results)), seen, Tail(results))
         ELSE MergeResults_NoAdd(all, seen, Tail(results))

\* for (const result of results) if (!seenLinks.has(result.link)) { add; push }
RECURSIVE MergeResults(_, _, _)
MergeResults(all, seen, results) ==
    IF results = <<>> THEN [all |-> all, seen |-> seen]
    ELSE IF Head(results).link \notin seen
         THEN MergeResults(Append(all, Head(results)),
                           seen \cup {Head(results).link}, Tail(results))
         ELSE MergeResults(all, seen, Tail(results))

InitMulti ==
    /\ NoInput
    /\ pc = "multi"
    /\ queries \in 0..MaxQueries
    /\ queryLog = <<>> /\ seenLinks = {} /\ multiResults = <<>>
    /\ FreshSearch /\ FreshScore /\ FreshHandler /\ FreshHook

\* mutant of QueryStep: the error of a failed query is thrown to the caller
QueryStep_Rethrow(out) == IF out.threw THEN "throw" ELSE "merge"

\* what one iteration does with the outcome of searchGoogle: "merge" its
\* results, or "continue" from the catch block, which logs and goes on
QueryStep(out) == IF out.threw THEN "continue" ELSE "merge"

\* one iteration of for (const query of queries): the try block, or its catch
MultiQuery ==
    /\ pc = "multi"
    /\ Len(queryLog) < queries
    /\ \E out \in QueryOutcomes :
          LET step == QueryStep(out)
              m == MergeResults(multiResults, seenLinks,
                                QueryResults(Len(queryLog) + 1, out.links))
          IN  /\ queryLog' = Append(queryLog, out)
              /\ multiResults' = IF step = "merge" THEN m.all ELSE multiResults
              /\ seenLinks' = IF step = "merge" THEN m.seen ELSE seenLinks
              /\ pc' = IF step = "throw" THEN "done" ELSE pc
              /\ outcome' = IF step = "throw" THEN "Threw" ELSE outcome
    /\ UNCHANGED <<inputVars, hookVars, callVars, queries, text, searchVars, scoreVars,
                   botVars, response>>

\* return allResults
MultiReturn ==
    /\ pc = "multi"
    /\ Len(queryLog) = queries
    /\ outcome' = "Returned"
    /\ pc' = "done"
    /\ UNCHANGED <<inputVars, sideVars, text, searchVars, scoreVars, botVars,
                   response>>

NextMulti == MultiQuery \/ MultiReturn

SpecMulti == InitMulti /\ [][NextMulti]_vars

\* --------------------------------------------- the webhook POST handlers
\* "webhook" is POST of src/app/api/webhook/route.ts; "processUpdate" is the
\* variant of the route whose POST hands the update to processUpdate
Slash == <<"/">>
CStart == <<"/", "s", "t", "a", "r", "t">>
CHelp == <<"/", "h", "e", "l", "p">>

HookTexts ==
    {Undefined, TEmpty, TWord, CStart, CHelp, Slash \o TWord,
     CStart \o TSpace \o TWord, CStart \o TWord, CHelp \o TSpace \o TWord,
     TSpace \o CStart}

\* the request body: not JSON, the JSON null, an update of another type, a
\* callback query without message, a message without chat id, a message
HookShapes == {"malformed", "null", "other", "callback", "noChat", "message"}

\* messageText.split(' ')[0]
RECURSIVE FirstToken(_)
FirstToken(s) ==
    IF s = <<>> \/ Head(s) = " " THEN <<>>
    ELSE <<Head(s)>> \o FirstToken(Tail(s))

\* route.ts 74-110: the handler a message with this text is handed to
RouteCommand(t) ==
    IF t # Undefined /\ StartsWith(t, Slash)
    THEN LET command == FirstToken(t)
         IN  IF command = CStart THEN "handleStartCommand"
             ELSE IF command = CHelp THEN "handleHelpCommand"
             ELSE "processMessage"
    ELSE "processMessage"

\* processUpdate: the handler a message with this text is handed to
RouteUpdate(t) ==
    IF Falsy(t) THEN "none"
    ELSE IF t = CStart THEN "handleStartCommand"
    ELSE IF t = CHelp THEN "handleHelpCommand"
    ELSE "processMessage"

InitHook ==
    /\ frontend \in {"webhook", "processUpdate"}
    /\ pc = "start"
    /\ update \in HookShapes
    /\ messageText \in (IF update \in {"noChat", "message"} THEN HookTexts
                        ELSE {Undefined})
    /\ caption = Undefined
    /\ routed = "none"
    /\ FreshSearch /\ FreshScore /\ FreshHandler /\ FreshMulti

\* the handler is started with the message; text is the messageText argument
\* of processMessage
Dispatch(h) ==
    /\ routed' = h
    /\ text' = IF h = "processMessage" THEN messageText ELSE text
    /\ pc' = IF h = "none" THEN "done" ELSE "routed"

\* POST of route.ts, up to return response
WebhookPost ==
    /\ frontend = "webhook" /\ pc = "start"
    /\ IF update = "malformed"
       THEN Respond(500, FALSE, "internal", <<>>) /\ Dispatch("none")
       ELSE IF update \in {"null", "noChat"}
            THEN Respond(400, FALSE, "invalid", <<>>) /\ Dispatch("none")
            ELSE IF update \in {"other", "callback"}
                 THEN Respond(200, TRUE, "none", <<>>) /\ Dispatch("none")
                 ELSE /\ Respond(200, TRUE, "none", <<>>)
                      /\ Dispatch(RouteCommand(messageText))
    /\ UNCHANGED <<inputVars, multiVars, callVars, update, searchVars, scoreVars, outcome,
                   botVars>>

\* POST of the variant, with processUpdate up to its first await
UpdatePost ==
    /\ frontend = "processUpdate" /\ pc = "start"
    /\ IF update \in {"malformed", "null"}
       THEN Respond(400, FALSE, "invalid", <<>>) /\ Dispatch("none")
       ELSE /\ Respond(200, TRUE, "none", <<>>)
            /\ IF update = "message" THEN Dispatch(RouteUpdate(messageText))
               ELSE Dispatch("none")
    /\ UNCHANGED <<inputVars, multiVars, callVars, update, searchVars, scoreVars, outcome,
                   botVars>>

\* mutant of HandlerSettle: the handler is awaited and its rejection answered with a 500
HandlerSettle_Awaited ==
    /\ pc = "routed"
    /\ \E ok \in BOOLEAN :
          /\ outcome' = IF ok THEN "HandlerResolved" ELSE "HandlerRejected"
          /\ IF ok THEN UNCHANGED response
             ELSE Respond(500, FALSE, "internal", <<>>)
    /\ pc' = "done"
    /\ UNCHANGED <<inputVars, sideVars, text, searchVars, scoreVars, botVars>>

\* the promise of the handler settles; a rejection is logged by the .catch
HandlerSettle ==
    /\ pc = "routed"
    /\ \E ok \in BOOLEAN :
          outcome' = IF ok THEN "HandlerResolved" ELSE "HandlerRejected"
    /\ pc' = "done"
    /\ UNCHANGED <<inputVars, sideVars, text, searchVars, scoreVars, botVars,
                   response>>

NextHook == WebhookPost \/ UpdatePost \/ HandlerSettle

SpecHook == InitHook /\ [][NextHook]_vars

\* ================================================================== claims
TerminalMsgs ==
    {"emptyInput", "noSources", "noRelevant", "searchError", "apology", "success"}

\* the terminal messages a sendMessage call delivered (the call resolved)
DeliveredTerminal ==
    {j \in DOMAIN sent : sent[j].ok /\ sent[j].msg \in TerminalMsgs}

Attempted(m) == \E j \in DOMAIN sent : sent[j].msg = m

BotDone == frontend = "bot" /\ pc = "done"

\* C1 as stated: whatever the sendMessage calls do, a finished run of
\* processMessage has delivered exactly one terminal message.
C1_ExactlyOneDelivered ==
    BotDone => Cardinality(DeliveredTerminal) = 1

\* C1 amended: a finished run of processMessage has delivered at most one
\* terminal message; it has delivered exactly one unless the apology send of
\* the top-level catch failed, and then it has delivered none and the promise
\* of processMessage is rejected.
C1_AtMostOneDelivered ==
    BotDone =>
        /\ Cardinality(DeliveredTerminal) <= 1
        /\ (Cardinality(DeliveredTerminal) = 0) <=> rejected
        /\ rejected <=> (caught /\ ~sent[Len(sent)].ok)
        /\ sent[Len(sent)].msg \in TerminalMsgs

\* C1 witness: a run whose terminal send failed and whose apology was delivered
C1_Witness ==
    /\ BotDone /\ caught /\ ~rejected
    /\ Len(sent) >= 2
    /\ sent[Len(sent) - 1].msg = "success" /\ ~sent[Len(sent) - 1].ok
    /\ Cardinality(DeliveredTerminal) = 1

\* C2: when searchGoogle throws, the outcome is SearchProviderError: the bot
\* sends the search-error message, the TMA route answers 500 without results,
\* the scoring provider is never called and no result list is produced.
C2_SearchFailureEndsPipeline ==
    (searchErr # "None" /\ pc = "done") =>
        /\ outcome = "SearchProviderError"
        /\ scorerCalls = 0
        /\ scoredResults = <<>> /\ topResults = <<>>
        /\ frontend = "bot" =>
              /\ Attempted("searchError")
              /\ ~Attempted("analyzing") /\ ~Attempted("success")
        /\ frontend = "tma" =>
              /\ response.status = 500 /\ ~response.success
              /\ response.results = <<>>

\* C2 witness: both front-ends finished after a failed first page call
C2_Witness ==
    /\ pc = "done" /\ searchErr = "quotaExceeded"
    /\ Len(pageLog) = 1 /\ pageLog[1].status = 429
    /\ outcome = "SearchProviderError"

\* C3: when searchGoogle returns an empty list, the outcome is NoSourcesFound
\* and the scoring provider is never called.
C3_EmptySearchSkipsScorer ==
    (pc = "done" /\ searchErr = "None" /\ Len(pageLog) > 0 /\ searchResults = <<>>) =>
        /\ outcome = "NoSourcesFound"
        /\ scorerCalls = 0 /\ scorerReply = NoReply
        /\ frontend = "bot" => Attempted("noSources") /\ ~Attempted("analyzing")
        /\ frontend = "tma" => response.status = 404 /\ response.error = "noSources"

\* C3 witness: the provider answered the one page call with no items
C3_Witness ==
    /\ pc = "done" /\ searchErr = "None"
    /\ Len(pageLog) = 1 /\ pageLog[1].kind = "items" /\ pageLog[1].n = 0
    /\ outcome = "NoSourcesFound"

Links(scored) == [j \in 1..Len(scored) |-> scored[j].link]

IsSortedDesc(scored) ==
    \A j \in 1..(Len(scored) - 1) : scored[j].confidence >= scored[j + 1].confidence

AllPositive(scored) == \A j \in 1..Len(scored) : scored[j].confidence > 0

\* the scoring provider was called and its call failed
ScorerFailed == scorerCalls > 0 /\ scorerReply.kind \in FailKinds

\* C4: when the search returned results and the scoring call fails, the
\* orchestrator selects Success, never UnexpectedError, and the results shown
\* are the first 3 raw search results in provider order, each with confidence
\* 50; the bot's apology can follow only a failed send of that success message.
C4_ScorerFailureStillSucceeds ==
    (frontend \in {"bot", "tma"} /\ ScorerFailed) =>
        /\ outcome = "Success"
        /\ Links(topResults) = Slice0(searchResults, TopN)
        /\ \A j \in 1..Len(topResults) : topResults[j].confidence = FallbackConfidence
        /\ frontend = "tma" =>
              /\ response.status = 200 /\ response.success
              /\ response.results = topResults
        /\ frontend = "bot" =>
              /\ Attempted("success") /\ ~Attempted("scoreWarning")
              /\ caught => \E j \in DOMAIN sent : sent[j].msg = "success" /\ ~sent[j].ok

\* C4 witness: four raw results, the scoring call threw, the first three are shown
C4_Witness ==
    /\ pc = "done" /\ scorerReply.kind = "throw"
    /\ searchResults = <<1, 2, 3, 4>>
    /\ Links(topResults) = <<1, 2, 3>>
    /\ outcome = "Success"

\* analyzeRelevance returned the fallback: the first min(10, n) candidates in
\* their order, each with the confidence c
IsUniform(c) ==
    /\ Len(scoredResults) = Min(AnalyzeLimit, Len(searchResults))
    /\ \A j \in 1..Len(scoredResults) :
          /\ scoredResults[j].link = searchResults[j]
          /\ scoredResults[j].confidence = c

ScoreDone == pc = "done" /\ Len(searchResults) > 0

C6_SuccessListShape ==
    (frontend \in {"bot", "tma"} /\ outcome = "Success") =>
        /\ Len(topResults) \in 1..TopN
        /\ IsSortedDesc(topResults)
        /\ AllPositive(topResults)
        /\ \A j \in 1..Len(scoredResults) :
              scoredResults[j].link \notin {topResults[m].link : m \in 1..Len(topResults)}
                 => \A m \in 1..Len(topResults) :
                       scoredResults[j].confidence <= topResults[m].confidence
        /\ frontend = "tma" => response.results = topResults

\* C6 witness: the scores 90, 70, 40, 10 give the three results 90, 70, 40
C6_Witness ==
    /\ pc = "done" /\ outcome = "Success"
    /\ Len(scoredResults) = 4 /\ scoredResults[4].confidence = 10
    /\ [j \in 1..Len(topResults) |-> topResults[j].confidence] = <<90, 70, 40>>

\* the reply scores every candidate, each with confidence 0
AllScoredZero ==
    /\ scorerCalls > 0 /\ scorerReply.kind = "list"
    /\ \A j \in 1..Len(searchResults) :
          LET f == FindIndex(scorerReply.items, j)
          IN  f # 0 /\ scorerReply.items[f].confidence = 0

\* C7: when the scorer gives every candidate confidence 0, getTopResults
\* yields the empty list and the outcome is NoRelevantSourcesFound (the bot's
\* no-relevant-sources message, HTTP 404 in the TMA), never Success.
C7_AllZeroIsNoRelevant ==
    (frontend \in {"bot", "tma"} /\ AllScoredZero) =>
        /\ topResults = <<>>
        /\ outcome = "NoRelevantSourcesFound"
        /\ frontend = "bot" => Attempted("noRelevant") /\ ~Attempted("success")
        /\ frontend = "tma" =>
              /\ response.status = 404 /\ ~response.success
              /\ response.error = "noRelevant"

\* C7 witness: three candidates, all scored 0
C7_Witness ==
    /\ pc = "done" /\ AllScoredZero /\ Len(searchResults) = 3
    /\ outcome = "NoRelevantSourcesFound"

Failed(reply) == reply.kind \in {"status", "throw"}

\* the items pushed by the first m page calls of the log
RECURSIVE Accumulated(_, _)
Accumulated(log, m) ==
    IF m = 0 THEN <<>>
    ELSE Accumulated(log, m - 1) \o PageItems(m - 1, log[m].n)

\* C9: in searchGoogle a failure of the first page call is thrown to the
\* caller, while a failure or an empty page on a later page call ends paging
\* and returns, without an error, what the earlier pages accumulated.
C9_FirstPageThrowsLaterPageStops ==
    (pc = "searched" /\ Len(pageLog) > 0) =>
        /\ Failed(pageLog[1]) => searchErr # "None" /\ searchResults = <<>>
        /\ \A j \in 2..Len(pageLog) :
              (Failed(pageLog[j]) \/ pageLog[j].n = 0) =>
                 /\ searchErr = "None"
                 /\ j = Len(pageLog)
                 /\ searchResults = Slice0(Accumulated(pageLog, j - 1), numResults)

\* C9 witness: the second page call fails with 500 after a first page of items
C9_Witness ==
    /\ frontend = "lib" /\ pc = "searched"
    /\ Len(pageLog) = 2 /\ pageLog[2].kind = "status" /\ pageLog[2].status = 500
    /\ searchErr = "None" /\ Len(searchResults) > 0

\* C10: searchGoogle returns at most numResults results and issues at most
\* ceil(numResults / 10) provider calls, whatever each page call returns.
C10_BoundedResultsAndCalls ==
    /\ Len(pageLog) <= CeilDiv(numResults, PageSize)
    /\ pc = "searched" => Len(searchResults) <= numResults

\* C10 witness: three page calls for more than twenty results, and a page
\* larger than the count asked for that is cut to it
C10_Witness ==
    /\ frontend = "lib" /\ pc = "searched" /\ searchErr = "None"
    /\ \/ numResults > 2 * PageSize /\ Len(pageLog) = 3
       \/ Len(allResults) > numResults /\ Len(searchResults) = numResults

\* C11: searchGoogle keeps paging until numResults results are collected or
\* the provider signals the end: it never returns, without an error, fewer
\* than numResults results when its last page call returned items.
C11_PagesUntilCountOrEnd ==
    (pc = "searched" /\ searchErr = "None" /\ Len(pageLog) > 0
        /\ Len(searchResults) < numResults) =>
        LET last == pageLog[Len(pageLog)]
        IN  Failed(last) \/ last.n = 0

\* the entries the queries answered so far returned, in query order
Returned ==
    UNION {{[link |-> queryLog[q].links[j], origin |-> <<q, j>>] :
               j \in DOMAIN queryLog[q].links} : q \in DOMAIN queryLog}

\* entry a was returned before entry b
Before(a, b) ==
    \/ a.origin[1] < b.origin[1]
    \/ a.origin[1] = b.origin[1] /\ a.origin[2] < b.origin[2]

\* C12: the list of searchMultiple never holds two entries with the same
\* link, whatever the queries return (duplicates within one query included);
\* every returned link is kept once, and the kept entry is its first
\* occurrence in query order.
C12_NoDuplicateLinks ==
    (frontend = "lib" /\ pc \in {"multi", "done"} /\ queries > 0) =>
        /\ \A a, b \in DOMAIN multiResults :
              a # b => multiResults[a].link # multiResults[b].link
        /\ \A a \in DOMAIN multiResults :
              /\ multiResults[a] \in Returned
              /\ \A e \in Returned :
                    e.link = multiResults[a].link /\ e # multiResults[a]
                       => Before(multiResults[a], e)
        /\ {multiResults[a].link : a \in DOMAIN multiResults}
              = {e.link : e \in Returned}

\* C12 witness: a duplicate inside the first query's results, a failed second
\* query and a third query repeating a link of the first
C12_Witness ==
    /\ pc = "done" /\ queries = 3
    /\ queryLog[1].links = <<1, 1>>
    /\ queryLog[2].threw
    /\ queryLog[3].links = <<2, 1>>
    /\ Len(multiResults) = 2
    /\ multiResults[1].origin = <<1, 1>> /\ multiResults[2].origin = <<3, 1>>

\* C13: for an input string s (the message text, the caption or the request
\* text) that is no t.me link and whose trim is non-empty, the text
\* extractText returns, which is the query of the search, equals trim(s).
C13_QueryIsTrimmedInput ==
    \A s \in {messageText, caption} :
        (/\ frontend \in {"bot", "tma"}
         /\ s \notin {Undefined, Malformed}
         /\ ~isTelegramUrl(s) /\ Len(Trim(s)) > 0
         /\ text # Undefined) => text = Trim(s)

\* absent, or empty after trimming
Blank(s) == s = Undefined \/ Len(Trim(s)) = 0

AllSendsOk == \A j \in DOMAIN sent : sent[j].ok

\* C14: when the message text and the caption are both absent or empty after
\* trimming, the outcome is EmptyInput (the bot's send-text-or-link message,
\* HTTP 400 in the TMA), not UnexpectedError, and neither provider is called;
\* stated for the runs in which every sendMessage call is delivered.
C14_BlankInputIsEmptyInput ==
    (/\ frontend \in {"bot", "tma"} /\ pc = "done"
     /\ Blank(messageText) /\ Blank(caption) /\ AllSendsOk) =>
        /\ outcome = "EmptyInput"
        /\ frontend = "bot" => Attempted("emptyInput") /\ ~Attempted("apology")
        /\ frontend = "tma" => response.status = 400
        /\ pageLog = <<>> /\ scorerCalls = 0

\* C15: for an input recognised as a t.me link the failed link extraction is
\* no error of the pipeline: extractText returns the input text unchanged and
\* the pipeline goes on to the search with it, selecting neither EmptyInput
\* nor, unless a sendMessage call failed, UnexpectedError.
C15_LinkFallsBackToOriginalText ==
    (frontend \in {"bot", "tma"} /\ isTelegramUrl(messageText)) =>
        /\ outcome # "EmptyInput"
        /\ outcome = "UnexpectedError" => ~AllSendsOk
        /\ (frontend = "tma" /\ pc # "start") =>
              text = messageText /\ numResults = PipelineNumResults
        /\ (frontend = "bot" /\ pc \notin {"start", "extract"} /\ sent[1].ok) =>
              /\ text = messageText
              /\ Attempted("searching")
              /\ AllSendsOk => numResults = PipelineNumResults
              /\ (AllSendsOk /\ pc = "done") => Len(pageLog) > 0 \/ searchErr # "None"

\* C15 witness: the bot searched with the link itself and found sources
C15_Witness ==
    /\ frontend = "bot" /\ pc = "done"
    /\ messageText = TLink /\ text = TLink
    /\ Len(pageLog) = 1 /\ outcome = "Success"

\* the HTTP status the spec assigns to an outcome
StatusOf(o) ==
    IF o = "Success" THEN 200
    ELSE IF o = "EmptyInput" THEN 400
    ELSE IF o \in {"NoSourcesFound", "NoRelevantSourcesFound"} THEN 404
    ELSE 500

\* C16: the TMA POST answers each outcome with one status: 200 with success
\* and a non-empty result list for Success, 400 for empty input, 404 for no
\* sources and no relevant sources, 500 for a search error and an unexpected
\* error; success goes with 200 only, and every other response has success
\* false and an error string.
C16_StatusPerOutcome ==
    frontend = "tma" =>
        /\ pc # "done" => response = NoResponse
        /\ pc = "done" =>
              /\ outcome \in {"Success", "EmptyInput", "NoSourcesFound",
                              "NoRelevantSourcesFound", "SearchProviderError",
                              "UnexpectedError"}
              /\ response.status = StatusOf(outcome)
              /\ response.success <=> response.status = 200
              /\ response.success =>
                    Len(response.results) > 0 /\ response.error = "none"
              /\ ~response.success =>
                    response.results = <<>> /\ response.error # "none"

\* C16 witness: a 404 for sources that were all scored irrelevant
C16_Witness ==
    /\ frontend = "tma" /\ pc = "done"
    /\ outcome = "NoRelevantSourcesFound" /\ Len(scoredResults) > 0
    /\ response.status = 404 /\ ~response.success

\* C17: processMessage lets no fault reach its caller: whatever stage or
\* sendMessage call fails, the apology send included, its promise resolves.
C17_ProcessMessageNeverRejects ==
    frontend = "bot" => ~rejected

ProgressMsgs == {"processing", "searching", "analyzing"}

\* C18: a progress notification that fails to be delivered neither stops nor
\* changes the pipeline: control does not pass to the catch block, the
\* following stage runs, and the outcome is not UnexpectedError.
C18_ProgressFailureIsHarmless ==
    \A j \in DOMAIN sent :
        (frontend = "bot" /\ sent[j].msg \in ProgressMsgs /\ ~sent[j].ok) =>
            /\ j = Len(sent) => pc # "catch"
            /\ j < Len(sent) => sent[j + 1].msg # "apology"
            /\ pc = "done" => outcome # "UnexpectedError"

\* C19: a request never hangs: every call to the search provider is bounded
\* by a timeout, so when the provider never answers the search stage is
\* treated as failed: a call of searchGoogle, which both orchestrators await
\* before any terminal outcome, eventually returns or throws.
C19_SearchEventuallyEnds == <>(pc = "searched")

\* C20: in the webhook POST handler a message whose text is exactly "/start"
\* or exactly "/help" goes to the static command handler and not to
\* processMessage, and every other non-empty text, also one that only begins
\* with "/start" or "/help" such as "/start a", is handed to processMessage
\* as the query.
C20_OnlyExactCommandsBypass ==
    (update = "message" /\ pc \in {"routed", "done"}) =>
        /\ messageText = CStart => routed = "handleStartCommand"
        /\ messageText = CHelp => routed = "handleHelpCommand"
        /\ (~Falsy(messageText) /\ messageText \notin {CStart, CHelp}) =>
              routed = "processMessage" /\ text = messageText

\* C21: the text shown for an unexpected error is one fixed message whatever
\* the error was: the bot's catch block always sends the same apology, and
\* the TMA route always answers 500 with the same error string, neither
\* carrying any detail of the error.
C21_GenericMessageForAnyError ==
    /\ (frontend = "bot" /\ caught) =>
          /\ sent[Len(sent)].msg = "apology"
          /\ \A j \in DOMAIN sent : sent[j].msg \in TerminalMsgs \cup ProgressMsgs
    /\ (frontend = "tma" /\ outcome = "UnexpectedError") =>
          /\ response.status = 500 /\ response.error = "unexpected"
          /\ response.results = <<>>

\* C21 witness: the apology sent after extractText threw (the other runs reach
\* the catch block through a failed sendMessage)
C21_Witness ==
    /\ frontend = "bot" /\ caught /\ pc = "done"
    /\ Len(sent) = 2 /\ sent[1].ok
    /\ sent[2].msg = "apology" /\ sent[2].ok

\* C22: every ScoredResult analyzeRelevance returns has an integer confidence
\* in 0..100, whatever the scoring provider's response contains.
C22_ConfidenceInRange ==
    (frontend = "lib" /\ pc = "done") =>
        \A j \in DOMAIN scoredResults : scoredResults[j].confidence \in 0..100

\* the errors searchGoogle throws, and the category the spec puts each in
SearchErrors ==
    {"notConfigured", "invalidConfiguration", "requestError", "accessDenied",
     "authenticationFailed", "quotaExceeded", "apiError", "fetchFailed"}

Category(err) ==
    IF err \in {"notConfigured", "invalidConfiguration"} THEN "configuration"
    ELSE IF err \in {"accessDenied", "authenticationFailed"} THEN "authorization"
    ELSE IF err = "quotaExceeded" THEN "quota"
    ELSE IF err = "requestError" THEN "malformedRequest"
    ELSE "other"

\* the text the front-end shows for a search error
UserMessage(fe, err) ==
    IF fe = "bot" THEN BotSearchErrorMessage(err) ELSE TmaSearchErrorMessage(err)

\* C23: a search error is shown with a message specific to its category: the
\* message a front-end shows for an error of one category (configuration,
\* authorization, quota, malformed request) is not the message it shows for
\* an error of another category.
C23_CategorySpecificMessage ==
    (/\ frontend \in {"bot", "tma"} /\ pc = "done"
     /\ outcome = "SearchProviderError" /\ Category(searchErr) # "other") =>
        /\ frontend = "bot" => Attempted(UserMessage("bot", searchErr))
        /\ frontend = "tma" => response.error = UserMessage("tma", searchErr)
        /\ \A e \in SearchErrors :
              (Category(e) \notin {"other", Category(searchErr)}) =>
                 UserMessage(frontend, e) # UserMessage(frontend, searchErr)

OkResponse == [status |-> 200, success |-> TRUE, error |-> "none", results |-> <<>>]

\* C24: the webhook POST answers a message update that has a chat id with
\* HTTP 200 {ok: true} while the handler it started is still running, and
\* whether that handler then resolves or rejects the response stays the same.
C24_AnswerBeforePipeline ==
    (frontend \in {"webhook", "processUpdate"} /\ update = "message") =>
        /\ pc = "routed" => response = OkResponse /\ outcome = "None"
        /\ pc = "done" => response = OkResponse

\* C24 witness: processMessage rejected after the 200 had been chosen
C24_Witness ==
    /\ frontend = "webhook" /\ update = "message" /\ pc = "done"
    /\ routed = "processMessage" /\ outcome = "HandlerRejected"
    /\ response.status = 200 /\ response.success

\* the calls the search provider received: the answered ones and a pending one
SearchCalls == Len(pageLog) + (IF pc = "searchPending" THEN 1 ELSE 0)

\* C25: no stage is retried within a request: in a run of processMessage or
\* of the TMA POST the search provider receives at most one call and the
\* scoring provider at most one call, whatever the calls return.
C25_AtMostOneCallPerStage ==
    frontend \in {"bot", "tma"} =>
        /\ SearchCalls <= 1
        /\ scorerCalls <= 1
        /\ pc = "done" /\ outcome \in {"Success", "NoRelevantSourcesFound"} =>
              SearchCalls = 1 /\ scorerCalls = 1

\* C25 witness: a short first page and a failed scoring call, each called once
C25_Witness ==
    /\ frontend = "tma" /\ pc = "done"
    /\ Len(pageLog) = 1 /\ pageLog[1].n = 1
    /\ scorerCalls = 1 /\ scorerReply.kind = "throw"

\* the scoring call returned a JSON object whose results field is an array or
\* is absent (any other content is a failure, which the catch block handles)
ScorerParsed == scorerCalls > 0 /\ scorerReply.kind \in {"list", "noresults"}

Succeeded == {q \in DOMAIN queryLog : ~queryLog[q].threw}

\* C27: searchMultiple skips a query whose search fails and still issues the
\* remaining ones: when at least one query succeeds it returns, without an
\* error, the merged results of all the succeeding queries, and it fails as
\* a whole only when every query fails.
C27_FailedQueriesAreSkipped ==
    (frontend = "lib" /\ pc = "done") =>
        /\ Len(queryLog) = queries
        /\ outcome = "Threw" => Succeeded = {}
        /\ Succeeded # {} =>
              /\ outcome = "Returned"
              /\ {multiResults[a].link : a \in DOMAIN multiResults}
                    = UNION {{queryLog[q].links[j] : j \in DOMAIN queryLog[q].links} :
                                q \in Succeeded}
              /\ \A a \in DOMAIN multiResults : multiResults[a].origin[1] \in Succeeded

\* C27 witness: the first and the last of three queries fail, the results of
\* the second are returned
C27_Witness ==
    /\ pc = "done" /\ queries = 3 /\ outcome = "Returned"
    /\ queryLog[1].threw /\ queryLog[3].threw
    /\ queryLog[2].links = <<1, 2>>
    /\ Len(multiResults) = 2

\* C28: a failure of the scoring provider is never shown to the user as an
\* error: processMessage never sends the error-while-analysing warning and
\* the orchestrator's own fallback (the catch around analyzeRelevance) is
\* never taken, because analyzeRelevance recovers by itself.
C28_ScorerFailureNeverSurfaced ==
    frontend = "bot" =>
        /\ ~Attempted("scoreWarning")
        /\ \A j \in DOMAIN scoredResults : scoredResults[j].explanation # "search"
        /\ (ScorerFailed /\ pc = "done") =>
              /\ Len(scoredResults) = Len(searchResults)
              /\ \A j \in DOMAIN scoredResults :
                    scoredResults[j].explanation = "unavailable"

\* C28 witness: the scoring call returned invalid JSON and the run ended with
\* the fallback results of analyzeRelevance, all messages delivered
C28_Witness ==
    /\ frontend = "bot" /\ pc = "done" /\ AllSendsOk
    /\ scorerReply.kind = "badjson" /\ Len(searchResults) = 2
    /\ Len(sent) = 4 /\ sent[4].msg = "success"
    /\ scoredResults[2].explanation = "unavailable"

\* C29: in every run of either front-end the search provider is called only
\* with a query whose trimmed length is greater than 0, and the original text
\* handed to the scorer is the very string that was the search query.
C29_QueryValidAndShared ==
    frontend \in {"bot", "tma"} =>
        /\ (SearchCalls > 0 \/ searchErr # "None") => query # Undefined
        /\ query # Undefined => Len(Trim(query)) > 0 /\ query # Malformed
        /\ scorerCalls > 0 => originalText = query
        /\ originalText # Undefined => scorerReply # NoReply /\ originalText = query

\* C29 witness: a text with spaces around it went to the search and to the
\* scorer as the same string
C29_Witness ==
    /\ frontend = "bot" /\ pc = "done"
    /\ messageText = TPadded /\ query = TPadded /\ originalText = TPadded
    /\ Len(pageLog) = 1 /\ scorerCalls = 1

\* C30: on the first page call the statuses 400, 401, 403 and 429 are mapped
\* to pairwise distinct failure reasons (request error or invalid
\* configuration, authentication, access denied, quota exceeded) and any
\* other non-OK status to the generic provider error; a 400 on a later page
\* ends paging without an error.
C30_StatusToReason ==
    (frontend = "lib" /\ pc = "searched" /\ Len(pageLog) > 0) =>
        /\ pageLog[1].kind = "status" =>
              /\ Len(pageLog) = 1
              /\ pageLog[1].status = 400 =>
                    searchErr = (IF pageLog[1].invalid THEN "invalidConfiguration"
                                 ELSE "requestError")
              /\ pageLog[1].status = 401 => searchErr = "authenticationFailed"
              /\ pageLog[1].status = 403 => searchErr = "accessDenied"
              /\ pageLog[1].status = 429 => searchErr = "quotaExceeded"
              /\ pageLog[1].status \notin {400, 401, 403, 429} => searchErr = "apiError"
              /\ searchErr = "apiError" => pageLog[1].status \notin {400, 401, 403, 429}
        /\ \A j \in 2..Len(pageLog) :
              (pageLog[j].kind = "status" /\ pageLog[j].status = 400) =>
                 /\ searchErr = "None" /\ j = Len(pageLog)
                 /\ Len(searchResults) > 0

\* C30 witness: a 401 on the first page call
C30_Witness ==
    /\ frontend = "lib" /\ pc = "searched"
    /\ Len(pageLog) = 1 /\ pageLog[1].kind = "status" /\ pageLog[1].status = 401
    /\ searchErr = "authenticationFailed"

====
